---- MODULE Spec2Model ----
(***************************************************************************)
(* A model of floodlights.py: one run of the command-line program, from    *)
(* the import of the module to the end of the process.  The configuration  *)
(* file is the only state that outlives a run; a run starts from a file    *)
(* left by an earlier run or edited by hand.                               *)
(*                                                                         *)
(* Python strings are sequences of one-character strings, so that what     *)
(* configparser does to a value (stripping, %-interpolation) and what      *)
(* float() accepts are computed and not assumed.                           *)
(***************************************************************************)
EXTENDS Integers, Sequences, FiniteSets, TLC

VARIABLES file, file0, config, argv, pc, trace, outcome

vars == <<file, file0, config, argv, pc, trace, outcome>>

(* ---------------------------- bounds ----------------------------------- *)

\* --brightness N is drawn from -1 .. MaxBrightness
MaxBrightness == 2
\* the device reports at most MaxDps data points
MaxDps == 2

(* ------------------------ program constants ---------------------------- *)

\* @click.option('--brightness', default=1000, type=int)
DefaultBrightness == 1000
\* configparser.MAX_INTERPOLATION_DEPTH
MaxInterpolationDepth == 10

None == "None"

Fields == <<"device_id", "device_ip", "device_key", "device_version">>

FieldSet == {Fields[i] : i \in 1..Len(Fields)}

\* the option names as configparser sees them after optionxform (lower case)
OptionChars ==
  [device_id      |-> <<"d","e","v","i","c","e","_","i","d">>,
   device_ip      |-> <<"d","e","v","i","c","e","_","i","p">>,
   device_key     |-> <<"d","e","v","i","c","e","_","k","e","y">>,
   device_version |-> <<"d","e","v","i","c","e","_","v","e","r","s","i","o","n">>,
   extra          |-> <<"e","x","t","r","a">>,
   x              |-> <<"x">>]

Digits == {"0","1","2","3","4","5","6","7","8","9"}

Whitespace == {" "}

(* --------------------------- str helpers -------------------------------- *)

RECURSIVE LStrip(_)
LStrip(s) ==
  IF s # <<>> /\ Head(s) \in Whitespace THEN LStrip(Tail(s)) ELSE s

RECURSIVE RStrip(_)
RStrip(s) ==
  IF s # <<>> /\ s[Len(s)] \in Whitespace
    THEN RStrip(SubSeq(s, 1, Len(s) - 1)) ELSE s

\* str.strip()
Strip(s) == RStrip(LStrip(s))

\* '%' in s
HasPercent(s) == \E i \in 1..Len(s) : s[i] = "%"

\* s[n:]
Drop(s, n) == SubSeq(s, n + 1, Len(s))

\* s.find(c) as a 1-based index, 0 when absent
Find(s, c) ==
  IF \E i \in 1..Len(s) : s[i] = c
    THEN CHOOSE i \in 1..Len(s) : s[i] = c /\ \A j \in 1..(i-1) : s[j] # c
    ELSE 0

\* the length of a match of _KEYCRE = r"%\(([^)]+)\)s" at the start of s, 0 if none
KeyRefLen(s) ==
  IF Len(s) >= 2 /\ s[1] = "%" /\ s[2] = "("
    THEN LET p == Find(s, ")")
         IN IF p > 3 /\ Len(s) > p /\ s[p + 1] = "s" THEN p + 1 ELSE 0
    ELSE 0

\* value.replace('%%', '')
RECURSIVE RemoveEscapes(_)
RemoveEscapes(s) ==
  IF Len(s) < 2 THEN s
  ELSE IF s[1] = "%" /\ s[2] = "%" THEN RemoveEscapes(Drop(s, 2))
  ELSE <<s[1]>> \o RemoveEscapes(Tail(s))

\* _KEYCRE.sub('', value)
RECURSIVE RemoveKeyRefs(_)
RemoveKeyRefs(s) ==
  IF s = <<>> THEN s
  ELSE IF KeyRefLen(s) > 0 THEN RemoveKeyRefs(Drop(s, KeyRefLen(s)))
  ELSE <<s[1]>> \o RemoveKeyRefs(Tail(s))

\* BasicInterpolation.before_set: TRUE when the value is accepted
BeforeSetOk(s) == ~HasPercent(RemoveKeyRefs(RemoveEscapes(s)))

(* ------------------ configparser.ConfigParser --------------------------- *)
(* A parser is the ordered list of its sections; a section is a name and   *)
(* the ordered list of its options.  The file is the list of its lines: a  *)
(* "[name]" header, or "name = text" where text is everything that follows *)
(* the delimiter and its blank.                                            *)

EmptyConfig == <<>>

Header(n) == [kind |-> "header", name |-> n, text |-> <<>>]

Option(k, t) == [kind |-> "option", name |-> k, text |-> t]

NoFile == [exists |-> FALSE, lines |-> <<>>]

FileOf(ls) == [exists |-> TRUE, lines |-> ls]

\* config.has_section(name)
HasSection(cfg, name) == \E i \in 1..Len(cfg) : cfg[i].name = name

SectionIndex(cfg, name) == CHOOSE i \in 1..Len(cfg) : cfg[i].name = name

OptIndex(opts, key) ==
  IF \E i \in 1..Len(opts) : opts[i].key = key
    THEN CHOOSE i \in 1..Len(opts) : opts[i].key = key
    ELSE 0

\* the section's dict after d[key] = val
PutOption(opts, key, val) ==
  IF OptIndex(opts, key) = 0
    THEN Append(opts, [key |-> key, val |-> val])
    ELSE [opts EXCEPT ![OptIndex(opts, key)].val = val]

\* add_section, keeping a section that is already there
EnsureSection(cfg, name) ==
  IF HasSection(cfg, name) THEN cfg ELSE Append(cfg, [name |-> name, opts |-> <<>>])

\* cfg._sections[name][key] = val
StoreOption(cfg, name, key, val) ==
  [cfg EXCEPT ![SectionIndex(cfg, name)].opts = PutOption(@, key, val)]

\* RawConfigParser._read over the lines from i on; cur is the current
\* section, seen the sections and options this source has set (strict mode)
RECURSIVE ReadLines(_, _, _, _, _)
ReadLines(cfg, lines, i, cur, seen) ==
  IF i > Len(lines) THEN [err |-> "none", config |-> cfg]
  ELSE LET l == lines[i] IN
    IF l.kind = "header"
      THEN IF <<l.name>> \in seen
             THEN [err |-> "DuplicateSectionError", config |-> cfg]
             ELSE ReadLines(EnsureSection(cfg, l.name), lines, i + 1, l.name,
                            seen \cup {<<l.name>>})
    ELSE IF cur = None
      THEN [err |-> "MissingSectionHeaderError", config |-> cfg]
    ELSE IF <<cur, l.name>> \in seen
      THEN [err |-> "DuplicateOptionError", config |-> cfg]
    ELSE ReadLines(StoreOption(cfg, cur, l.name, Strip(l.text)), lines, i + 1,
                   cur, seen \cup {<<cur, l.name>>})

\* config.read(config_file_path): a file that is not there is skipped
ReadFile(cfg, f) ==
  IF f.exists THEN ReadLines(cfg, f.lines, 1, None, {})
  ELSE [err |-> "none", config |-> cfg]

RECURSIVE OptionLines(_)
OptionLines(opts) ==
  IF opts = <<>> THEN <<>>
  ELSE <<Option(Head(opts).key, Head(opts).val)>> \o OptionLines(Tail(opts))

\* config.write(configfile): every section of the parser, "key = value"
RECURSIVE SectionLines(_)
SectionLines(cfg) ==
  IF cfg = <<>> THEN <<>>
  ELSE <<Header(Head(cfg).name)>> \o OptionLines(Head(cfg).opts)
       \o SectionLines(Tail(cfg))

\* open(config_file_path, 'w') and config.write
WriteFile(cfg) == FileOf(SectionLines(cfg))

\* the options of d set one after the other, each through before_set; the
\* first refused value raises ValueError
RECURSIVE SetOptions(_, _, _)
SetOptions(cfg, name, d) ==
  IF d = <<>> THEN [err |-> "none", config |-> cfg]
  ELSE IF ~BeforeSetOk(Head(d).val)
    THEN [err |-> "ValueError", config |-> cfg]
  ELSE SetOptions(StoreOption(cfg, name, Head(d).key, Head(d).val), name, Tail(d))

\* config[name] = d: an existing section is cleared, then read_dict
SetSection(cfg, name, d) ==
  LET cleared == IF HasSection(cfg, name)
                   THEN [cfg EXCEPT ![SectionIndex(cfg, name)].opts = <<>>]
                   ELSE Append(cfg, [name |-> name, opts |-> <<>>])
  IN SetOptions(cleared, name, d)

\* the option whose lower-case name is the characters cs, None if unknown
OptionNamed(cs) ==
  IF \E k \in DOMAIN OptionChars : OptionChars[k] = cs
    THEN CHOOSE k \in DOMAIN OptionChars : OptionChars[k] = cs
    ELSE None

\* BasicInterpolation._interpolate_some: the value of rest with "%%" and
\* "%(name)s" expanded against the options of the section
RECURSIVE InterpolateSome(_, _, _)
InterpolateSome(opts, rest, depth) ==
  IF depth > MaxInterpolationDepth
    THEN [err |-> "InterpolationDepthError", val |-> <<>>]
  ELSE IF rest = <<>> THEN [err |-> "none", val |-> <<>>]
  ELSE LET p == Find(rest, "%") IN
    IF p = 0 THEN [err |-> "none", val |-> rest]
    ELSE LET before == SubSeq(rest, 1, p - 1)
             r == Drop(rest, p - 1)
             c == IF Len(r) >= 2 THEN r[2] ELSE ""
         IN
      IF c = "%"
        THEN LET t == InterpolateSome(opts, Drop(r, 2), depth)
             IN IF t.err # "none" THEN t
                ELSE [err |-> "none", val |-> before \o <<"%">> \o t.val]
      ELSE IF c = "("
        THEN IF KeyRefLen(r) = 0
               THEN [err |-> "InterpolationSyntaxError", val |-> <<>>]
             ELSE LET var == OptionNamed(SubSeq(r, 3, KeyRefLen(r) - 2))
                      i == IF var = None THEN 0 ELSE OptIndex(opts, var)
                  IN
               IF i = 0
                 THEN [err |-> "InterpolationMissingOptionError", val |-> <<>>]
               ELSE LET v == IF HasPercent(opts[i].val)
                               THEN InterpolateSome(opts, opts[i].val, depth + 1)
                               ELSE [err |-> "none", val |-> opts[i].val]
                        t == InterpolateSome(opts, Drop(r, KeyRefLen(r)), depth)
                    IN IF v.err # "none" THEN v
                       ELSE IF t.err # "none" THEN t
                       ELSE [err |-> "none", val |-> before \o v.val \o t.val]
      ELSE [err |-> "InterpolationSyntaxError", val |-> <<>>]

\* config.get(section, option)
ConfigGet(cfg, name, key) ==
  IF ~HasSection(cfg, name) THEN [err |-> "NoSectionError", val |-> <<>>]
  ELSE LET opts == cfg[SectionIndex(cfg, name)].opts
           i == OptIndex(opts, key)
       IN IF i = 0 THEN [err |-> "NoOptionError", val |-> <<>>]
          ELSE InterpolateSome(opts, opts[i].val, 1)

(* ------------------------------ float ----------------------------------- *)

AllDigits(s) == \A i \in 1..Len(s) : s[i] \in Digits

\* float(s) succeeds: blanks stripped, an optional sign, then digits with
\* at most one point and at least one digit (exponents, inf and nan are
\* not written with the characters the model uses)
IsFloat(s) ==
  LET t == Strip(s)
      u == IF t # <<>> /\ t[1] \in {"+", "-"} THEN Tail(t) ELSE t
      p == Find(u, ".")
      ip == IF p = 0 THEN u ELSE SubSeq(u, 1, p - 1)
      fp == IF p = 0 THEN <<>> ELSE Drop(u, p)
  IN AllDigits(ip) /\ AllDigits(fp) /\ Len(ip) + Len(fp) > 0

RECURSIVE DropTrailingZeros(_)
DropTrailingZeros(s) ==
  IF s # <<>> /\ s[Len(s)] = "0"
    THEN DropTrailingZeros(SubSeq(s, 1, Len(s) - 1)) ELSE s

RECURSIVE DropLeadingZeros(_)
DropLeadingZeros(s) ==
  IF s # <<>> /\ Head(s) = "0" THEN DropLeadingZeros(Tail(s)) ELSE s

\* float(s) for an accepted s: the number as sign, integer digits and
\* fraction digits without the zeros that do not change it
Float(s) ==
  LET t == Strip(s)
      neg == t # <<>> /\ t[1] = "-"
      u == IF t # <<>> /\ t[1] \in {"+", "-"} THEN Tail(t) ELSE t
      p == Find(u, ".")
      ip == IF p = 0 THEN u ELSE SubSeq(u, 1, p - 1)
      fp == IF p = 0 THEN <<>> ELSE Drop(u, p)
  IN [neg |-> neg, int |-> DropLeadingZeros(ip), frac |-> DropTrailingZeros(fp)]

(* --------------------- inputs of a run ---------------------------------- *)

DeviceCommands == {"on", "off", "status"}

\* what the user may type at a prompt: a leading blank or none, "%" alone
\* or doubled, a blank alone, a version that is a number or not.
\* click.prompt asks again until the answer is not empty, so "" is not
\* among them
PromptValues(f) ==
  CASE f = "device_id"      -> {<<"a">>, <<" ", "a">>}
    [] f = "device_ip"      -> {<<"1">>, <<"%", "%">>, <<" ">>}
    [] f = "device_key"     -> {<<"a">>, <<"%">>}
    [] f = "device_version" -> {<<"3", ".", "3">>, <<"x">>}

\* what may follow --device-id and the other flags; a flag is taken as it
\* is, "" included
FlagValues(f) ==
  CASE f = "device_id"      -> {<<"a">>}
    [] f = "device_ip"      -> {<<"1">>, <<>>}
    [] f = "device_key"     -> {<<"a">>}
    [] f = "device_version" -> {<<"3", ".", "3">>}

\* the records over the four fields with r[f] in S[f]
Answers(S) ==
  {[device_id |-> a, device_ip |-> b, device_key |-> c, device_version |-> d] :
     a \in S["device_id"], b \in S["device_ip"],
     c \in S["device_key"], d \in S["device_version"]}

\* an option of the command line: <<>> when it is not there, <<v>> when
\* it is there with the value v
Absent == <<>>

Given(v) == <<v>>

NoFlags ==
  [device_id |-> Absent, device_ip |-> Absent, device_key |-> Absent,
   device_version |-> Absent]

FlagChoices(f) == {Absent} \cup {Given(v) : v \in FlagValues(f)}

ConfigureArgs ==
  {[cmd |-> "configure", brightness |-> Absent, flags |-> fl] : fl \in Answers([f \in FieldSet |-> FlagChoices(f)])}

OnArgs ==
  {[cmd |-> "on", brightness |-> b, flags |-> NoFlags] :
     b \in {Absent} \cup {Given(n) : n \in -1..MaxBrightness}}

Args ==
  ConfigureArgs \cup OnArgs
  \cup {[cmd |-> c, brightness |-> Absent, flags |-> NoFlags] : c \in {"off", "status"}}

\* a Floodlight section as an earlier run wrote it
OldSection ==
  <<Header("Floodlight"),
    Option("device_id", <<"b">>), Option("device_ip", <<"2">>),
    Option("device_key", <<"b">>), Option("device_version", <<"3">>)>>

\* the files a run may find
InitFiles ==
  { NoFile,
    FileOf(<<>>),
    FileOf(<<Header("Other"), Option("x", <<"b">>)>>),
    FileOf(<<Option("x", <<"b">>)>>),
    FileOf(OldSection),
    FileOf(OldSection \o <<Option("extra", <<"b">>)>>),
    FileOf(<<Header("Other"), Option("x", <<"b">>)>> \o OldSection),
    FileOf(<<Header("Floodlight"),
             Option("device_id", <<"b">>), Option("device_ip", <<"2">>),
             Option("device_version", <<"3">>)>>),
    FileOf(<<Header("Floodlight"),
             Option("device_id", <<"b">>), Option("device_ip", <<>>),
             Option("device_key", <<"%", "(", "d", "e", "v", "i", "c", "e", "_", "i", "d", ")", "s">>),
             Option("device_version", <<" ", "3">>)>>),
    FileOf(<<Header("Floodlight"),
             Option("device_id", <<"b">>), Option("device_ip", <<"2">>),
             Option("device_key", <<"b">>), Option("device_version", <<"v", "3">>)>>) }

(* ------------------------- what a run does ------------------------------ *)

Prompt(src, f, v) == [ev |-> "prompt", op |-> src, args |-> <<f, v>>]

\* the file written by a configure that was given the answers ans
Write(ans) == [ev |-> "write", op |-> "config.ini", args |-> <<ans>>]

Echo(msg) == [ev |-> "echo", op |-> msg, args |-> <<>>]

\* a call of the device library; for status, args is what it returned
Call(op, args) == [ev |-> "call", op |-> op, args |-> args]

Info(msg, args) == [ev |-> "log", op |-> msg, args |-> args]

\* the dict literal of configure, in the order of its keys
FloodlightDict(ans) ==
  [i \in 1..Len(Fields) |-> [key |-> Fields[i], val |-> ans[Fields[i]]]]

\* os.path.exists(config_file_path) and config.has_section('Floodlight')
Configured(f, cfg) == f.exists /\ HasSection(cfg, "Floodlight")

Init ==
  /\ file \in InitFiles
  /\ file0 = file
  /\ argv \in Args
  /\ config = EmptyConfig
  /\ pc = "import"
  /\ trace = <<>>
  /\ outcome = "running"

\* the run ends with the exception e uncaught
Raise(e) == pc' = "done" /\ outcome' = e

\* lines 10-16: config = ConfigParser(); config.read(config_file_path)
Import ==
  /\ pc = "import"
  /\ LET r == ReadFile(config, file) IN
       /\ config' = r.config
       /\ IF r.err # "none" THEN Raise(r.err)
          ELSE pc' = "check" /\ outcome' = outcome
  /\ UNCHANGED <<file, file0, argv, trace>>

\* the body of either configure: the section set, the file written
SaveAnswers(ans, asked, next, result) ==
  LET r == SetSection(config, "Floodlight", FloodlightDict(ans)) IN
    /\ config' = r.config
    /\ IF r.err # "none"
         THEN /\ trace' = trace \o asked
              /\ file' = file
              /\ Raise(r.err)
         ELSE /\ trace' = trace \o asked
                           \o <<Write(ans), Echo("Configuration saved successfully!")>>
              /\ file' = WriteFile(r.config)
              /\ pc' = next
              /\ outcome' = result

\* lines 38-39 and 18-35: the module-level check finds no configuration
\* and calls configure(), which prompts for the four fields
ModuleConfigure ==
  /\ pc = "check"
  /\ ~Configured(file, config)
  /\ \E ans \in Answers([f \in FieldSet |-> PromptValues(f)]) :
       /\ SaveAnswers(ans, [i \in 1..Len(Fields) |->
                              Prompt("click.prompt", Fields[i], ans[Fields[i]])],
                      "main", outcome)
  /\ UNCHANGED <<file0, argv>>

\* line 38: the configuration is there
ModuleConfigured ==
  /\ pc = "check"
  /\ Configured(file, config)
  /\ pc' = "main"
  /\ UNCHANGED <<file, file0, config, argv, trace, outcome>>

\* line 140: config.read(config_file_path) once more, into the same parser
MainRead ==
  /\ pc = "main"
  /\ LET r == ReadFile(config, file) IN
       /\ config' = r.config
       /\ IF r.err # "none" THEN Raise(r.err)
          ELSE pc' = "cli" /\ outcome' = outcome
  /\ UNCHANGED <<file, file0, argv, trace>>

\* the prompts of the options no flag gave, in the order of declaration
RECURSIVE OptionPrompts(_, _, _)
OptionPrompts(flags, ans, i) ==
  IF i > Len(Fields) THEN <<>>
  ELSE (IF flags[Fields[i]] = Absent
          THEN <<Prompt("option", Fields[i], ans[Fields[i]])>> ELSE <<>>)
       \o OptionPrompts(flags, ans, i + 1)

\* lines 117-132: the configure command
CliConfigure ==
  /\ pc = "cli"
  /\ argv.cmd = "configure"
  /\ LET Values == [f \in FieldSet |->
                       IF argv.flags[f] = Absent THEN PromptValues(f)
                       ELSE {argv.flags[f][1]}]
     IN \E ans \in Answers(Values) :
       /\ SaveAnswers(ans, OptionPrompts(argv.flags, ans, 1), "done", "ok")
  /\ UNCHANGED <<file0, argv>>

\* lines 143-146: the handler of ConfigError.  The name configure is by now
\* the click command of line 122; called without arguments it parses the
\* command line of the run, whose first word is the name of the device
\* command, and click ends the process with a usage error
HandleConfigError ==
  /\ trace' = Append(trace,
       Echo("Configuration file is missing or malformed. Please reconfigure the app."))
  /\ Raise("UsageError")

\* the first of the results rs that is an error, "none" if none is
FirstError(rs) ==
  IF \E i \in 1..Len(rs) : rs[i].err # "none"
    THEN rs[CHOOSE i \in 1..Len(rs) :
              rs[i].err # "none" /\ \A j \in 1..(i-1) : rs[j].err = "none"].err
    ELSE "none"

\* the address passed on as it is, empty or not
OrAutoForgotten(ip) == ip

\* self.device_ip = config.get('Floodlight', 'DEVICE_IP') or "Auto"
OrAuto(ip) == IF ip = <<>> THEN <<"A", "u", "t", "o">> ELSE ip

\* lines 54-61: FloodlightController(), called first by on, off and status
Construct ==
  /\ pc = "cli"
  /\ argv.cmd \in DeviceCommands
  /\ IF ~Configured(file, config) THEN HandleConfigError
     ELSE LET id  == ConfigGet(config, "Floodlight", "device_id")
              ip  == ConfigGet(config, "Floodlight", "device_ip")
              key == ConfigGet(config, "Floodlight", "device_key")
              ver == ConfigGet(config, "Floodlight", "device_version")
              e   == FirstError(<<id, ip, key, ver>>)
              connect == Call("OutletDevice", <<id.val, OrAuto(ip.val), key.val>>)
          IN IF e # "none" THEN trace' = trace /\ Raise(e)
             ELSE IF ~IsFloat(ver.val)
               THEN trace' = Append(trace, connect) /\ Raise("ValueError: float")
             ELSE /\ trace' = trace \o <<connect, Call("set_version", <<Float(ver.val)>>)>>
                  /\ pc' = "controller"
                  /\ outcome' = outcome
  /\ UNCHANGED <<file, file0, config, argv>>

\* lines 101-105 and 63-70: controller.on(brightness)
On ==
  /\ pc = "controller"
  /\ argv.cmd = "on"
  /\ LET brightness == IF argv.brightness = Absent THEN DefaultBrightness
                       ELSE argv.brightness[1]
     IN trace' = trace \o
          (IF brightness # 0
             THEN <<Call("set_value", <<20, TRUE>>), Call("set_value", <<22, brightness>>),
                    Info("Floodlights turned on with brightness", <<brightness>>)>>
             ELSE <<Call("set_value", <<20, TRUE>>), Info("Floodlights turned on", <<>>)>>)
  /\ Raise("ok")
  /\ UNCHANGED <<file, file0, config, argv>>

\* off that writes what on writes
OffTurnsOn ==
  /\ pc = "controller"
  /\ argv.cmd = "off"
  /\ trace' = trace \o <<Call("set_value", <<20, TRUE>>), Info("Floodlights turned off", <<>>)>>
  /\ Raise("ok")
  /\ UNCHANGED <<file, file0, config, argv>>

\* lines 112-115 and 93-95: controller.off()
Off ==
  /\ pc = "controller"
  /\ argv.cmd = "off"
  /\ trace' = trace \o <<Call("set_value", <<20, FALSE>>), Info("Floodlights turned off", <<>>)>>
  /\ Raise("ok")
  /\ UNCHANGED <<file, file0, config, argv>>

(* ------------------------------ status ---------------------------------- *)

KnownCodes == {"20", "21", "22", "25", "26"}

\* the data-point codes a device may report: the known ones and two others
Codes == KnownCodes \cup {"23", "101"}

DpsValues == {0, 1}

\* the table of map_dps_values
mapping ==
  [k \in KnownCodes |->
     CASE k = "20" -> "Power State"
       [] k = "21" -> "Mode"
       [] k = "22" -> "Brightness"
       [] k = "25" -> "Unknown"
       [] k = "26" -> "Unknown"]

\* mapping.get(key, f"Unknown Key {key}"): a label is the list of the
\* pieces of its text
MappedKey(key) ==
  IF key \in DOMAIN mapping THEN <<mapping[key]>> ELSE <<"Unknown Key ", key>>

\* lines 72-84: the dict output after the loop over dps.items()
RECURSIVE MapInto(_, _)
MapInto(output, dps) ==
  IF dps = <<>> THEN output
  ELSE MapInto(PutOption(output, MappedKey(Head(dps).key), Head(dps).val), Tail(dps))

map_dps_values(dps) == MapInto(<<>>, dps)

\* the dicts of data points a device may return, in the order of their keys
DpsDicts ==
  UNION {{d \in [1..n -> [key : Codes, val : DpsValues]] :
            \A i, j \in 1..n : i # j => d[i].key # d[j].key} : n \in 0..MaxDps}

\* lines 107-110 and 86-91: controller.status()
Status ==
  /\ pc = "controller"
  /\ argv.cmd = "status"
  /\ \E dps \in DpsDicts :
       trace' = trace \o <<Call("status", <<dps>>),
                           Info("Current status of the device", <<map_dps_values(dps)>>)>>
  /\ Raise("ok")
  /\ UNCHANGED <<file, file0, config, argv>>

Next ==
  \/ Import
  \/ ModuleConfigure
  \/ ModuleConfigured
  \/ MainRead
  \/ CliConfigure
  \/ Construct
  \/ On
  \/ Off
  \/ Status

Spec == Init /\ [][Next]_vars

(* ========================== the properties ============================== *)

DoneOk == pc = "done" /\ outcome = "ok"

IsCall(e) == e.ev = "call"

IsWrite(e) == e.ev = "write"

IsPrompt(e) == e.ev = "prompt"

\* the device-library calls of the run, in order
Calls == SelectSeq(trace, IsCall)

\* the writes of the config file in the run, in order
Writes == SelectSeq(trace, IsWrite)

\* how often the run has asked for the field f
TimesAsked(f) ==
  Cardinality({i \in 1..Len(trace) : IsPrompt(trace[i]) /\ trace[i].args[1] = f})

\* the answers the last configure of the run was given
LastAnswers == Writes[Len(Writes)].args[1]

\* the exceptions a configuration fault ends the run with
ConfigurationExceptions ==
  {"ConfigError", "UsageError", "ValueError", "ValueError: float",
   "NoSectionError", "NoOptionError", "MissingSectionHeaderError",
   "DuplicateSectionError", "DuplicateOptionError",
   "InterpolationSyntaxError", "InterpolationMissingOptionError",
   "InterpolationDepthError"}

\* the file has a [Floodlight] header
FileHasSection(f) ==
  f.exists /\ \E i \in 1..Len(f.lines) : f.lines[i] = Header("Floodlight")

\* the run started without a configuration
StartedUnconfigured == ~FileHasSection(file0)

\* what FloodlightController.__init__ gets for the field f in a fresh run
FreshGet(f) == ConfigGet(ReadFile(EmptyConfig, file).config, "Floodlight", f)

\* the value of the field f as a fresh run reads it from the file, before
\* config.get expands it; None when the file has no such field
Stored(f) ==
  LET cfg == ReadFile(EmptyConfig, file).config
      opts == IF HasSection(cfg, "Floodlight")
                THEN cfg[SectionIndex(cfg, "Floodlight")].opts ELSE <<>>
  IN IF OptIndex(opts, f) = 0 THEN <<None>> ELSE opts[OptIndex(opts, f)].val

\* the file that holds one section with the four fields of ans and no more
WholesaleFile(ans) ==
  FileOf(<<Header("Floodlight")>>
         \o [i \in 1..Len(Fields) |-> Option(Fields[i], ans[Fields[i]])])

\* C1: once a configure has written the file, a fresh run reads back each
\* of the four values exactly as it was given
C1_RoundTrip ==
  Writes # <<>> =>
    \A f \in FieldSet :
      FreshGet(f).err = "none" /\ FreshGet(f).val = LastAnswers[f]

\* C2: a device command that starts without a configuration makes no
\* device-library call before the four prompts and the write, and does
\* not end with a configuration exception
C2_ConfigureInsteadOfCrash ==
  (argv.cmd \in DeviceCommands /\ StartedUnconfigured) =>
    /\ outcome \notin ConfigurationExceptions
    /\ \A i \in 1..Len(trace) :
         IsCall(trace[i]) =>
           /\ \E j \in 1..(i-1) : IsWrite(trace[j])
           /\ \A f \in FieldSet :
                \E j \in 1..(i-1) : IsPrompt(trace[j]) /\ trace[j].args[1] = f

\* the label the relabeling table is said to give the code k
SaidLabel(k) ==
  CASE k = "20" -> <<"Power State">>
    [] k = "21" -> <<"Mode">>
    [] k = "22" -> <<"Brightness">>
    [] k = "25" -> <<"Unknown">>
    [] k = "26" -> <<"Unknown">>
    [] OTHER    -> <<"Unknown Key ", k>>

\* the data points the device returned and the relabeled dict that was logged
StatusDps == Calls[Len(Calls)].args[1]

StatusOutput == trace[Len(trace)].args[1]

StatusDone == DoneOk /\ argv.cmd = "status"

\* C3: every data point is in the output under the label of its code, with
\* its own value
C3_Relabel ==
  StatusDone =>
    \A i \in 1..Len(StatusDps) :
      \E j \in 1..Len(StatusOutput) :
        /\ StatusOutput[j].key = SaidLabel(StatusDps[i].key)
        /\ StatusOutput[j].val = StatusDps[i].val

\* the configuration the run started with is missing or malformed
StartedMalformed ==
  LET r == ReadFile(EmptyConfig, file0)
      opts == IF HasSection(r.config, "Floodlight")
                THEN r.config[SectionIndex(r.config, "Floodlight")].opts ELSE <<>>
  IN \/ ~file0.exists
     \/ r.err # "none"
     \/ ~HasSection(r.config, "Floodlight")
     \/ \E f \in FieldSet : OptIndex(opts, f) = 0
     \/ ~IsFloat(opts[OptIndex(opts, "device_version")].val)

\* C4: a device command on a missing or malformed configuration ends with
\* the four fields asked for and saved and then the request to rerun
C4_SingleErrorPath ==
  (pc = "done" /\ argv.cmd \in DeviceCommands /\ StartedMalformed) =>
    /\ \A f \in FieldSet : TimesAsked(f) >= 1
    /\ Writes # <<>>
    /\ trace[Len(trace)] = Echo("Please rerun the original command.")

\* C5: after a configure command the file is the one section with the four
\* fields of that run
C5_Wholesale ==
  (DoneOk /\ argv.cmd = "configure") => file = WholesaleFile(LastAnswers)

IsSetValue(e) == e.ev = "call" /\ e.op = "set_value"

SetValues == [i \in 1..Len(SelectSeq(trace, IsSetValue)) |->
                SelectSeq(trace, IsSetValue)[i].args]

\* C7: on --brightness N writes 20 := true then 22 := N; on without
\* --brightness writes 20 := true only
C7_OnBrightness ==
  (DoneOk /\ argv.cmd = "on") =>
    SetValues = IF argv.brightness = Absent THEN <<<<20, TRUE>>>>
                ELSE <<<<20, TRUE>>, <<22, argv.brightness[1]>>>>

\* the ops of the device-library calls of the run
CallOps == [i \in 1..Len(Calls) |-> Calls[i].op]

\* s is a prefix of t
IsPrefix(s, t) == Len(s) <= Len(t) /\ s = SubSeq(t, 1, Len(s))

\* the device calls of a complete run of the command c
CommandOps(c) ==
  CASE c = "off"    -> {<<"OutletDevice", "set_version", "set_value">>}
    [] c = "status" -> {<<"OutletDevice", "set_version", "status">>}
    [] c = "on"     -> {<<"OutletDevice", "set_version", "set_value">>,
                        <<"OutletDevice", "set_version", "set_value", "set_value">>}
    [] OTHER        -> {<<>>}

\* C8: configuration first, then the client with its protocol version, then
\* the calls of one command: off writes 20 := false once, status reads once,
\* configure calls nothing
C8_Order ==
  /\ \E ops \in CommandOps(argv.cmd) :
       IF DoneOk THEN CallOps = ops ELSE IsPrefix(CallOps, ops)
  /\ \A i, j \in 1..Len(trace) :
       (IsCall(trace[i]) /\ (IsPrompt(trace[j]) \/ IsWrite(trace[j]))) => j < i
  /\ Calls # <<>> => pc \in {"controller", "done"} /\ Len(Calls[1].args) = 3
  /\ (DoneOk /\ argv.cmd = "off") => SetValues = <<<<20, FALSE>>>>
  /\ (DoneOk /\ argv.cmd = "status") => SetValues = <<>>

\* C8 witness: a status run that had to ask for the configuration first
C8_Witness ==
  /\ StatusDone
  /\ StartedUnconfigured
  /\ Writes # <<>>
  /\ CallOps = <<"OutletDevice", "set_version", "status">>

\* C9: the relabeled dict has as many entries as the device returned
C9_NoLoss == StatusDone => Len(StatusOutput) = Len(StatusDps)

\* C10: a configure command asks for each field at most once and never for
\* one a flag gave, writes the file once, and leaves its values in the file
C10_ConfigureOnce ==
  (DoneOk /\ argv.cmd = "configure") =>
    /\ \A f \in FieldSet :
         /\ TimesAsked(f) <= 1
         /\ argv.flags[f] # Absent => TimesAsked(f) = 0
    /\ Len(Writes) = 1
    /\ \A f \in FieldSet : Stored(f) = Strip(LastAnswers[f])

====
